---- MODULE Spec2Model ----
(***************************************************************************)
(* The e-mail relay service of src/main.py: one FastAPI application with   *)
(* GET / and POST /send-email, served by a single uvicorn event loop.      *)
(* The model follows one coroutine at a time through schema validation     *)
(* (the pydantic models), the handler send_email and the blocking SMTP     *)
(* session of send_email_smtp, with the SMTP server as the environment.    *)
(***************************************************************************)
EXTENDS Integers, Sequences, FiniteSets, TLC

\* Bounds of the model.
NumReq == 2          \* requests that arrive over one run
MaxRecipients == 2   \* longest recipients list a request body carries

----------------------------------------------------------------------------
\* Request bodies as they arrive (JSON), before pydantic has seen them.
\* A key of the body is <<>> when it is absent and <<v>> when it holds v.

Maybe(S) == {<<>>} \cup {<<s>> : s \in S}

SeqsUpTo(S, n) == UNION {[1..k -> S] : k \in 0..n}

\* Addresses a client may write: two valid ones (the second with an
\* upper-case domain) and a string that is no e-mail address.
RawAddr == {"a@x.org", "b@X.ORG", "nope"}

PaymentIds == {7, 1042}

HtmlPages == {"<h1>Booked</h1>"}

RawSettings ==
    [SMTP_SERVER    : Maybe({"", "smtp.x.org"}),
     SMTP_PORT      : Maybe({"", "587", "smtp"}),
     SMTP_USERNAME  : Maybe({"", "desk@x.org"}),
     SMTP_PASSWORD  : Maybe({"", "secret"}),
     SMTP_FROM_NAME : Maybe({"", "Front Desk"})]

\* payment_id stands for the required keys the handler only passes on or
\* ignores (payment_id, timestamp, customer_details, booking_details).
RawBodies ==
    [recipients     : Maybe(SeqsUpTo(RawAddr, MaxRecipients)),
     payment_id     : Maybe(PaymentIds),
     HTML_PAGE      : Maybe(HtmlPages),
     email_settings : Maybe(RawSettings)]

SettingFields ==
    {"SMTP_SERVER", "SMTP_PORT", "SMTP_USERNAME", "SMTP_PASSWORD", "SMTP_FROM_NAME"}

----------------------------------------------------------------------------
\* pydantic: EmailStr, EmailSettings, SendEmailRequest.

\* EmailStr accepts a syntactically valid address and yields it with the
\* domain part in lower case; anything else is a validation error (<<>>).
EmailStrValidate(s) ==
    CASE s = "a@x.org" -> <<"a@x.org">>
      [] s = "b@X.ORG" -> <<"b@x.org">>
      [] OTHER         -> <<>>

\* EmailSettings: five required str fields.
EmailSettingsValid(s) == \A f \in SettingFields : Len(s[f]) = 1

\* SendEmailRequest: every key required, recipients a list of EmailStr
\* (the empty list is a valid list).
SchemaValid(b) ==
    /\ Len(b.recipients) = 1
    /\ \A i \in 1..Len(b.recipients[1]) : Len(EmailStrValidate(b.recipients[1][i])) = 1
    /\ Len(b.payment_id) = 1
    /\ Len(b.HTML_PAGE) = 1
    /\ Len(b.email_settings) = 1
    /\ EmailSettingsValid(b.email_settings[1])

\* The SendEmailRequest object the handler receives.
ParseRequest(b) ==
    [recipients     |-> [i \in 1..Len(b.recipients[1]) |->
                            EmailStrValidate(b.recipients[1][i])[1]],
     payment_id     |-> b.payment_id[1],
     HTML_PAGE      |-> b.HTML_PAGE[1],
     email_settings |-> [f \in SettingFields |-> b.email_settings[1][f][1]]]

----------------------------------------------------------------------------
\* send_email: the validation of lines 87-90.

NoError == ""

ValidationError_SettingsFirst(req) ==
    IF \E f \in SettingFields : req.email_settings[f] = ""
    THEN "All email settings are required"
    ELSE IF Len(req.recipients) = 0
         THEN "At least one recipient is required"
         ELSE NoError

ValidationError_SkipFromName(req) ==
    IF Len(req.recipients) = 0
    THEN "At least one recipient is required"
    ELSE IF \E f \in SettingFields \ {"SMTP_FROM_NAME"} : req.email_settings[f] = ""
         THEN "All email settings are required"
         ELSE NoError

\* `not request.recipients` first, then `not all([...five settings...])`:
\* a str is falsy exactly when it is empty.
ValidationError(req) ==
    IF Len(req.recipients) = 0
    THEN "At least one recipient is required"
    ELSE IF \E f \in SettingFields : req.email_settings[f] = ""
         THEN "All email settings are required"
         ELSE NoError

\* f"Order Confirmed - Payment ID: {request.payment_id}"
Subject(payment_id) == "Order Confirmed - Payment ID: " \o ToString(payment_id)

----------------------------------------------------------------------------
\* send_email_smtp: the message of lines 62-68.  A header that lists
\* addresses is the sequence of its entries.

UndisclosedRecipients == "undisclosed-recipients:;"

BuildMessage_ToRecipients(to_emails, subject, html_content, settings) ==
    [Subject |-> subject,
     From    |-> settings["SMTP_FROM_NAME"] \o " <" \o settings["SMTP_USERNAME"] \o ">",
     To      |-> to_emails,
     parts   |-> << [subtype |-> "html", payload |-> html_content] >>]

BuildMessage(to_emails, subject, html_content, settings) ==
    [Subject |-> subject,
     From    |-> settings["SMTP_FROM_NAME"] \o " <" \o settings["SMTP_USERNAME"] \o ">",
     To      |-> <<UndisclosedRecipients>>,
     parts   |-> << [subtype |-> "html", payload |-> html_content] >>]

\* int(email_settings.SMTP_PORT): a ValueError unless the text is a number.
PortParses(port) == port \in {"587"}

\* The entries of a list.
Elems(xs) == {xs[i] : i \in 1..Len(xs)}

\* What the SMTP server may answer to one sendmail call: MAIL FROM accepted
\* or not, the places of to_addrs whose RCPT TO it accepts (one RCPT TO is
\* sent per entry, a repeated address more than once), DATA accepted or not,
\* and whether it hung up or answered 421 to one of the commands.
SendOutcomes(to_addrs) ==
    [sender : BOOLEAN, rcpt : SUBSET (1..Len(to_addrs)), data : BOOLEAN,
     hangup : BOOLEAN]

\* smtplib.SMTP.sendmail: senderrs, a dict keyed by the refused addresses.
SendmailRefused(o, to_addrs) == {to_addrs[i] : i \in (1..Len(to_addrs)) \ o.rcpt}

\* smtplib.SMTP.sendmail closes the socket itself when a reply is 421 or
\* the server hangs up (the code == 421 branches, SMTP.getreply, SMTP.send),
\* and then raises.
SendmailCloses(o) == o.hangup

\* smtplib.SMTP.sendmail raises when the server hung up or answered 421,
\* when MAIL FROM is refused, when len(senderrs) == len(to_addrs), or when
\* DATA is refused.  A list that repeats an address has fewer distinct
\* addresses than entries, so with every RCPT TO refused it still goes on
\* to DATA.
SendmailRaises(o, to_addrs) ==
    \/ SendmailCloses(o)
    \/ ~o.sender
    \/ Cardinality(SendmailRefused(o, to_addrs)) = Len(to_addrs)
    \/ ~o.data

\* The addresses the server accepted the message for: those whose RCPT TO
\* it accepted when sendmail returns normally (the refused ones come back in
\* the dict), none when it raises.
SendmailDelivered(o, to_addrs) ==
    IF SendmailRaises(o, to_addrs) THEN {} ELSE {to_addrs[i] : i \in o.rcpt}

----------------------------------------------------------------------------
\* Responses.

HelloResponse ==
    [status |-> 200, message |-> "Hello! Email sender API is running.",
     detail |-> "", sent_to |-> <<>>]

ErrorResponse(status, detail) ==
    [status |-> status, message |-> "", detail |-> detail, sent_to |-> <<>>]

\* FastAPI answers a body that fails the schema before the handler runs.
SchemaErrors == "<pydantic validation errors>"
UnprocessableResponse == ErrorResponse(422, SchemaErrors)

OkResponse_Reversed(req) ==
    [status |-> 200, message |-> "Email sent successfully", detail |-> "",
     sent_to |-> [i \in 1..Len(req.recipients) |->
                     req.recipients[Len(req.recipients) + 1 - i]]]

\* EmailResponse(message=..., sent_to=request.recipients, timestamp=now);
\* the timestamp is the wall clock's and is left out.
OkResponse(req) ==
    [status |-> 200, message |-> "Email sent successfully", detail |-> "",
     sent_to |-> req.recipients]

FailureDetail == "Failed to send email"

\* str(e) of what print raises when it cannot write to stdout: the
\* ValueError of a closed text stream, the BrokenPipeError of a pipe whose
\* reader is gone.
PrintErrors == {"I/O operation on closed file.", "[Errno 32] Broken pipe"}

\* What a call on the open connection may meet: the reply it wants, an
\* error reply (the connection stays open), or a server that hung up
\* (SMTP.getreply and SMTP.send close the socket before they raise).
StageOutcomes == {"ok", "refused", "hangup"}

\* f"Error sending email: {str(e)}", line 100.
UnexpectedDetail(e) == "Error sending email: " \o e

----------------------------------------------------------------------------
VARIABLES
    pending,      \* requests accepted by the server, waiting for the event loop
    handled,      \* requests the event loop has started so far
    pc,           \* where the running coroutine stands; "idle" when none runs
    kind,         \* "send" | "hello" | "none": the route of the running request
    raw,          \* <<body>> of the running POST as it arrived, else <<>>
    request,      \* <<SendEmailRequest>> once parsed, else <<>>
    msg,          \* <<message>> once send_email_smtp built it, else <<>>
    exc,          \* an exception is propagating out of the with block
    sock,         \* server.sock is set: the connection of the running request is open
    error,        \* <<str(e)>> of the exception that left send_email_smtp, else <<>>
    success,      \* <<bool>> once send_email_smtp returned a value, else <<>>
    envelope,     \* <<[from_addr, to_addrs, msg]>> handed to sendmail, else <<>>
    accepted,     \* addresses the server accepted the message for
    response,     \* <<response>> once the handler answered, else <<>>
    log,          \* the steps of the running request, in order, each with its outcome
    openConns,    \* SMTP connections open in the process
    served,       \* requests answered 200 by /send-email
    submissions   \* sendmail calls that returned normally, over the whole run

frame == <<pc, kind, raw, request, msg, exc, sock, error, success, envelope,
           accepted, response, log>>
vars == <<pending, handled, pc, kind, raw, request, msg, exc, sock, error, success,
          envelope, accepted, response, log, openConns, served, submissions>>

Entry(op, ok) == [op |-> op, ok |-> ok]

Init ==
    /\ pending = 0
    /\ handled = 0
    /\ pc = "idle"
    /\ kind = "none"
    /\ raw = <<>>
    /\ request = <<>>
    /\ msg = <<>>
    /\ exc = FALSE
    /\ sock = FALSE
    /\ error = <<>>
    /\ success = <<>>
    /\ envelope = <<>>
    /\ accepted = {}
    /\ response = <<>>
    /\ log = <<>>
    /\ openConns = 0
    /\ served = 0
    /\ submissions = 0

\* A client's request reaches the server.
Arrive ==
    /\ pending + handled < NumReq
    /\ pending' = pending + 1
    /\ UNCHANGED <<handled, frame, openConns, served, submissions>>

\* The event loop runs one coroutine until it awaits or ends; hello and
\* send_email never await, so the loop takes the next request only when no
\* handler is running.
LoopFree == pc = "idle"

\* GET /
DispatchHello ==
    /\ LoopFree
    /\ pending > 0
    /\ pending' = pending - 1
    /\ handled' = handled + 1
    /\ kind' = "hello"
    /\ response' = <<HelloResponse>>
    /\ pc' = "done"
    /\ UNCHANGED <<raw, request, msg, exc, success, envelope, accepted, log,
                   openConns, served, submissions, sock, error>>

\* POST /send-email with some body b: the schema first, then the handler.
DispatchSend ==
    /\ LoopFree
    /\ pending > 0
    /\ pending' = pending - 1
    /\ handled' = handled + 1
    /\ kind' = "send"
    /\ \E b \in RawBodies :
       /\ raw' = <<b>>
       /\ IF SchemaValid(b)
          THEN /\ request' = <<ParseRequest(b)>>
               /\ pc' = "validate"
               /\ response' = response
          ELSE /\ request' = request
               /\ pc' = "done"
               /\ response' = <<UnprocessableResponse>>
    /\ UNCHANGED <<msg, exc, success, envelope, accepted, log,
                   openConns, served, submissions, sock, error>>

\* send_email, lines 87-92.
Validate ==
    /\ pc = "validate"
    /\ LET err == ValidationError(request[1]) IN
       IF err # NoError
       THEN /\ response' = <<ErrorResponse(400, err)>>
            /\ log' = Append(log, Entry("validate", FALSE))
            /\ pc' = "done"
       ELSE /\ response' = response
            /\ log' = Append(log, Entry("validate", TRUE))
            /\ pc' = "connect"
    /\ UNCHANGED <<pending, handled, kind, raw, request, msg, exc, success,
                   envelope, accepted, openConns, served, submissions, sock, error>>

Connect_Retry ==
    /\ pc = "connect"
    /\ msg' = <<BuildMessage(request[1].recipients, Subject(request[1].payment_id),
                             request[1].HTML_PAGE, request[1].email_settings)>>
    /\ IF ~PortParses(request[1].email_settings["SMTP_PORT"])
       THEN /\ pc' = "except"
            /\ UNCHANGED <<log, openConns, sock>>
       ELSE \E ok \in BOOLEAN :
            /\ log' = Append(log, Entry("connect", ok))
            /\ IF ok
               THEN /\ openConns' = openConns + 1
                    /\ sock' = TRUE
                    /\ pc' = "starttls"
               ELSE /\ openConns' = openConns
                    /\ sock' = sock
                    /\ pc' = IF Len(log) < 2 THEN "connect" ELSE "except"
    /\ UNCHANGED <<pending, handled, kind, raw, request, exc, success, envelope,
                   accepted, response, served, submissions, error>>

\* send_email_smtp, lines 62-70: build the message, int(SMTP_PORT), then
\* smtplib.SMTP(host, port), which connects or raises with no socket left.
\* Either exception goes to the except clause of line 79.
Connect ==
    /\ pc = "connect"
    /\ msg' = <<BuildMessage(request[1].recipients, Subject(request[1].payment_id),
                             request[1].HTML_PAGE, request[1].email_settings)>>
    /\ IF ~PortParses(request[1].email_settings["SMTP_PORT"])
       THEN /\ pc' = "except"
            /\ UNCHANGED <<log, openConns, sock>>
       ELSE \E ok \in BOOLEAN :
            /\ log' = Append(log, Entry("connect", ok))
            /\ IF ok
               THEN /\ openConns' = openConns + 1
                    /\ sock' = TRUE
                    /\ pc' = "starttls"
               ELSE /\ openConns' = openConns
                    /\ sock' = sock
                    /\ pc' = "except"
    /\ UNCHANGED <<pending, handled, kind, raw, request, exc, success, envelope,
                   accepted, response, served, submissions, error>>

StartTLS_IgnoreFailure ==
    /\ pc = "starttls"
    /\ \E o \in StageOutcomes :
       /\ log' = Append(log, Entry("starttls", o = "ok"))
       /\ exc' = exc
       /\ sock' = (o # "hangup")
       /\ openConns' = IF o = "hangup" THEN openConns - 1 ELSE openConns
       /\ pc' = "login"
    /\ UNCHANGED <<pending, handled, kind, raw, request, msg, success, envelope,
                   accepted, response, served, submissions, error>>

\* server.starttls(), line 71: raises unless the server upgrades; when the
\* server hung up, the socket is closed by the time the exception is raised.
StartTLS ==
    /\ pc = "starttls"
    /\ \E o \in StageOutcomes :
       /\ log' = Append(log, Entry("starttls", o = "ok"))
       /\ exc' = (o # "ok")
       /\ sock' = (o # "hangup")
       /\ openConns' = IF o = "hangup" THEN openConns - 1 ELSE openConns
       /\ pc' = IF o = "ok" THEN "login" ELSE "exit"
    /\ UNCHANGED <<pending, handled, kind, raw, request, msg, success, envelope,
                   accepted, response, served, submissions, error>>

\* server.login(username, password), line 72: raises unless the server
\* authenticates; a hang-up closes the socket as in starttls.
Login ==
    /\ pc = "login"
    /\ \E o \in StageOutcomes :
       /\ log' = Append(log, Entry("login", o = "ok"))
       /\ exc' = (o # "ok")
       /\ sock' = (o # "hangup")
       /\ openConns' = IF o = "hangup" THEN openConns - 1 ELSE openConns
       /\ pc' = IF o = "ok" THEN "sendmail" ELSE "exit"
    /\ UNCHANGED <<pending, handled, kind, raw, request, msg, success, envelope,
                   accepted, response, served, submissions, error>>

\* server.sendmail(from_addr, to_addrs, msg), lines 73-77; its return value
\* (the refused recipients) is dropped.  On a 421 or a hang-up the socket
\* is closed inside the call.
Sendmail ==
    /\ pc = "sendmail"
    /\ envelope' = <<[from_addr |-> request[1].email_settings["SMTP_USERNAME"],
                      to_addrs  |-> request[1].recipients,
                      msg       |-> msg[1]]>>
    /\ \E o \in SendOutcomes(request[1].recipients) :
       LET raised == SendmailRaises(o, request[1].recipients) IN
       /\ accepted' = SendmailDelivered(o, request[1].recipients)
       /\ submissions' = submissions + (IF raised THEN 0 ELSE 1)
       /\ log' = Append(log, Entry("sendmail", ~raised))
       /\ exc' = raised
       /\ sock' = ~SendmailCloses(o)
       /\ openConns' = IF SendmailCloses(o) THEN openConns - 1 ELSE openConns
    /\ pc' = "exit"
    /\ UNCHANGED <<pending, handled, kind, raw, request, msg, success, response,
                   served, error>>

ExitWith_LeakOnError ==
    /\ pc = "exit"
    /\ IF sock
       THEN \E quitOk \in BOOLEAN :
            /\ log' = Append(log, Entry("quit", quitOk))
            /\ openConns' = IF exc THEN openConns ELSE openConns - 1
            /\ sock' = FALSE
            /\ IF (~exc) /\ quitOk
               THEN success' = <<TRUE>> /\ pc' = "respond"
               ELSE success' = success /\ pc' = "except"
       ELSE /\ UNCHANGED <<log, openConns, sock, success>>
            /\ pc' = "except"
    /\ UNCHANGED <<pending, handled, kind, raw, request, msg, exc, envelope,
                   accepted, response, served, submissions, error>>

\* Leaving the with block, normally or by an exception: SMTP.__exit__ sends
\* QUIT, raises on a reply other than 221 (a hang-up on QUIT is swallowed
\* and counts as 221), and closes the socket in its finally clause.  When
\* the failing call already closed the socket, no QUIT goes out, the
\* SMTPServerDisconnected of SMTP.send is swallowed and close() finds
\* nothing to close.  Without an exception line 78 returns True; with one
\* the except clause of line 79 is next.
ExitWith ==
    /\ pc = "exit"
    /\ IF sock
       THEN \E quitOk \in BOOLEAN :
            /\ log' = Append(log, Entry("quit", quitOk))
            /\ openConns' = openConns - 1
            /\ sock' = FALSE
            /\ IF (~exc) /\ quitOk
               THEN success' = <<TRUE>> /\ pc' = "respond"
               ELSE success' = success /\ pc' = "except"
       ELSE /\ UNCHANGED <<log, openConns, sock, success>>
            /\ pc' = "except"
    /\ UNCHANGED <<pending, handled, kind, raw, request, msg, exc, envelope,
                   accepted, response, served, submissions, error>>

\* send_email_smtp, lines 79-81: print the error and return False.  print
\* raises when stdout cannot be written (closed, a broken pipe); that
\* exception leaves send_email_smtp, which then returns nothing.
HandleError ==
    /\ pc = "except"
    /\ \/ /\ log' = Append(log, Entry("print", TRUE))
          /\ success' = <<FALSE>>
          /\ error' = error
       \/ \E e \in PrintErrors :
          /\ log' = Append(log, Entry("print", FALSE))
          /\ success' = success
          /\ error' = <<e>>
    /\ pc' = "respond"
    /\ UNCHANGED <<pending, handled, kind, raw, request, msg, exc, envelope,
                   accepted, response, openConns, served, submissions, sock>>

\* send_email, lines 93-100: True is answered 200, False is the
\* HTTPException of line 95, re-raised by line 98, and an exception e that
\* left send_email_smtp (success was never assigned) is the 500 of line
\* 100, with str(e) in its detail.
Respond ==
    /\ pc = "respond"
    /\ IF success = <<TRUE>>
       THEN /\ response' = <<OkResponse(request[1])>>
            /\ served' = served + 1
       ELSE /\ response' = IF success = <<FALSE>>
                           THEN <<ErrorResponse(500, FailureDetail)>>
                           ELSE <<ErrorResponse(500, UnexpectedDetail(error[1]))>>
            /\ served' = served
    /\ log' = Append(log, Entry("respond", success = <<TRUE>>))
    /\ pc' = "done"
    /\ UNCHANGED <<pending, handled, kind, raw, request, msg, exc, success,
                   envelope, accepted, openConns, submissions, sock, error>>

\* The server writes the response; the coroutine is over and the loop is
\* free for the next request.
Reply ==
    /\ pc = "done"
    /\ pc' = "idle"
    /\ kind' = "none"
    /\ raw' = <<>>
    /\ request' = <<>>
    /\ msg' = <<>>
    /\ exc' = FALSE
    /\ sock' = FALSE
    /\ error' = <<>>
    /\ success' = <<>>
    /\ envelope' = <<>>
    /\ accepted' = {}
    /\ response' = <<>>
    /\ log' = <<>>
    /\ UNCHANGED <<pending, handled, openConns, served, submissions>>

Next ==
    \/ Arrive
    \/ DispatchHello
    \/ DispatchSend
    \/ Validate
    \/ Connect
    \/ StartTLS
    \/ Login
    \/ Sendmail
    \/ ExitWith
    \/ HandleError
    \/ Respond
    \/ Reply

Spec == Init /\ [][Next]_vars

----------------------------------------------------------------------------
\* Reading the running request.

SendDone == pc = "done" /\ kind = "send"

Status == response[1].status

RawRecipientsEmpty(b) == b.recipients = << <<>> >>

RawRecipientsNonEmpty(b) == Len(b.recipients) = 1 /\ Len(b.recipients[1]) > 0

\* Every key but email_settings is present and valid.
RawOtherKeysValid(b) ==
    /\ Len(b.recipients) = 1
    /\ \A i \in 1..Len(b.recipients[1]) : EmailStrValidate(b.recipients[1][i]) # <<>>
    /\ Len(b.payment_id) = 1
    /\ Len(b.HTML_PAGE) = 1

\* One of the five keys of email_settings is absent from the body.
RawSettingMissing(b) ==
    /\ Len(b.email_settings) = 1
    /\ \E f \in SettingFields : b.email_settings[1][f] = <<>>

\* One of the five keys of email_settings holds the empty string.
RawSettingEmpty(b) ==
    /\ Len(b.email_settings) = 1
    /\ \E f \in SettingFields : b.email_settings[1][f] = <<"">>

\* Non-empty recipients and five non-empty settings.
WellFormed(req) ==
    /\ Len(req.recipients) > 0
    /\ \A f \in SettingFields : req.email_settings[f] # ""

PassedValidation == Len(log) > 0 /\ log[1] = Entry("validate", TRUE)

\* send_email_smtp is over: it returned a value, or an exception left it.
TransportEnded == success # <<>> \/ error # <<>>

Calls(op) == Cardinality({i \in 1..Len(log) : log[i].op = op})

TransportStages == {"connect", "starttls", "login", "sendmail"}

StageFailed == \E i \in 1..Len(log) : log[i].op \in TransportStages /\ ~log[i].ok

----------------------------------------------------------------------------
\* C1 as stated: every request whose recipients list is empty is answered
\* 400 "At least one recipient is required", whatever its other fields are,
\* missing email settings included.
C1_EmptyRecipientsAlways400 ==
    (SendDone /\ RawRecipientsEmpty(raw[1])) =>
        /\ Status = 400
        /\ response[1].detail = "At least one recipient is required"

\* C1 amended: a request whose recipients list is empty is answered 400
\* "At least one recipient is required" when its body passes the schema,
\* empty-string settings included, and 422 when another required key is
\* absent.
C1_EmptyRecipients400WhenSchemaValid ==
    (SendDone /\ RawRecipientsEmpty(raw[1])) =>
        IF SchemaValid(raw[1])
        THEN /\ Status = 400
             /\ response[1].detail = "At least one recipient is required"
        ELSE Status = 422

C1_Witness ==
    /\ SendDone
    /\ RawRecipientsEmpty(raw[1])
    /\ SchemaValid(raw[1])
    /\ RawSettingEmpty(raw[1])
    /\ Status = 400

\* C2 as stated: a request with a non-empty recipients list, valid but for
\* its email_settings, in which one of the five EmailSettings fields is
\* missing is answered 400.
C2_MissingSetting400 ==
    (SendDone /\ RawRecipientsNonEmpty(raw[1]) /\ RawOtherKeysValid(raw[1])
        /\ RawSettingMissing(raw[1])) =>
        Status = 400

\* C2 amended: with a non-empty recipients list, a body that passes the
\* schema and has one of the five settings empty is answered 400 "All email
\* settings are required"; a body in which one of the five keys is absent
\* is answered 422.
C2_EmptySetting400MissingSetting422 ==
    /\ (SendDone /\ RawRecipientsNonEmpty(raw[1]) /\ SchemaValid(raw[1])
            /\ RawSettingEmpty(raw[1])) =>
          /\ Status = 400
          /\ response[1].detail = "All email settings are required"
    /\ (SendDone /\ RawRecipientsNonEmpty(raw[1]) /\ RawSettingMissing(raw[1])) =>
          Status = 422

C2_Witness ==
    /\ SendDone
    /\ RawRecipientsNonEmpty(raw[1])
    /\ SchemaValid(raw[1])
    /\ raw[1].email_settings[1]["SMTP_FROM_NAME"] = <<"">>
    /\ \A f \in SettingFields \ {"SMTP_FROM_NAME"} : raw[1].email_settings[1][f] # <<"">>
    /\ Status = 400

\* C3: a well-formed request whose transport succeeded is answered 200
\* "Email sent successfully" with sent_to the request's recipients, element
\* for element in order: as many entries as the body listed, each the
\* validated form of the entry at the same place.
C3_SentToIsRecipients ==
    (SendDone /\ request # <<>> /\ WellFormed(request[1]) /\ success = <<TRUE>>) =>
        /\ Status = 200
        /\ response[1].message = "Email sent successfully"
        /\ response[1].sent_to = request[1].recipients
        /\ Len(response[1].sent_to) = Len(raw[1].recipients[1])
        /\ \A i \in 1..Len(response[1].sent_to) :
              <<response[1].sent_to[i]>> = EmailStrValidate(raw[1].recipients[1][i])

C3_Witness ==
    /\ SendDone
    /\ success = <<TRUE>>
    /\ Status = 200
    /\ Len(response[1].sent_to) = 2
    /\ response[1].sent_to[1] # response[1].sent_to[2]

\* C4 as stated: a well-formed request one of whose transport stages
\* (connect, STARTTLS, login, sendmail) failed is answered 500 with the
\* detail "Failed to send email", whichever stage it was, and with no
\* exception text in it.
C4_TransportFailureGeneric500 ==
    (SendDone /\ request # <<>> /\ WellFormed(request[1]) /\ StageFailed) =>
        /\ Status = 500
        /\ response[1].detail = "Failed to send email"

\* C5: the message handed to sendmail has the To header
\* "undisclosed-recipients:;", which names no recipient of the request, and
\* the envelope recipients are the request's recipients in their order.
C5_ToHiddenEnvelopeExact ==
    envelope # <<>> =>
        /\ envelope[1].msg.To = <<UndisclosedRecipients>>
        /\ \A i \in 1..Len(request[1].recipients) :
              request[1].recipients[i] \notin Elems(envelope[1].msg.To)
        /\ envelope[1].to_addrs = request[1].recipients

C5_Witness ==
    /\ envelope # <<>>
    /\ Len(envelope[1].to_addrs) = 2
    /\ envelope[1].to_addrs[1] # envelope[1].to_addrs[2]
    /\ accepted # {}

\* C6 as stated, on the side of the reported success: a request answered
\* 200 had its message accepted by the SMTP server for every address of
\* recipients; none is answered 200, with all of them in sent_to, when the
\* server accepted the message for only some of them.
C6_SuccessMeansAllAccepted ==
    (SendDone /\ Status = 200) =>
        accepted = Elems(request[1].recipients)

\* C7 as stated: a request that passes validation makes exactly one SMTP
\* connection attempt and at most one submission, and every request
\* answered 200 stands for a submission of its own.
C7_ExactlyOneAttempt ==
    /\ (SendDone /\ PassedValidation) =>
          /\ Calls("connect") = 1
          /\ Calls("sendmail") <= 1
    /\ served <= submissions

\* C7 amended: a request that passes validation makes at most one SMTP
\* connection attempt, exactly one when SMTP_PORT is the text of a number
\* and none when it is not, and at most one submission, whether the
\* attempt succeeds or fails; every request answered 200 stands for a
\* submission of its own.
C7_OneAttemptWhenPortParses ==
    /\ Calls("connect") <= 1
    /\ Calls("sendmail") <= 1
    /\ (SendDone /\ PassedValidation) =>
          Calls("connect") =
              IF PortParses(request[1].email_settings["SMTP_PORT"]) THEN 1 ELSE 0
    /\ served <= submissions
    /\ submissions <= handled

C7_Witness ==
    /\ SendDone
    /\ handled = 2
    /\ served = 2
    /\ submissions = 2
    /\ Calls("connect") = 1

\* C8: the steps of a request come in the order validation, connect,
\* STARTTLS, login, sendmail, response, each only after the one before it
\* succeeded; a request answered 400 made no connection, and a validated
\* request is answered only once the transport is over.
C8_StepOrder ==
    /\ \A i \in 1..Len(log) :
          /\ log[i].op = "validate" => i = 1
          /\ log[i].op = "connect"  => i > 1 /\ log[i-1] = Entry("validate", TRUE)
          /\ log[i].op = "starttls" => i > 1 /\ log[i-1] = Entry("connect", TRUE)
          /\ log[i].op = "login"    => i > 1 /\ log[i-1] = Entry("starttls", TRUE)
          /\ log[i].op = "sendmail" => i > 1 /\ log[i-1] = Entry("login", TRUE)
          /\ log[i].op = "respond"  => i = Len(log) /\ TransportEnded
    /\ (kind = "send" /\ response # <<>> /\ Status \in {400, 422}) =>
          Calls("connect") = 0 /\ openConns = 0
    /\ (kind = "send" /\ response # <<>> /\ PassedValidation) => TransportEnded

C8_Witness ==
    /\ SendDone
    /\ Calls("sendmail") = 1
    /\ Calls("respond") = 1

\* C9: no SMTP connection is open once the with block of send_email_smtp
\* has been left, whichever way, nor while no request is in its transport.
C9_ConnectionClosed ==
    /\ openConns \in {0, 1}
    /\ sock <=> openConns = 1
    /\ pc \in {"idle", "validate", "connect", "except", "respond", "done"} =>
          openConns = 0

C9_Witness ==
    /\ SendDone
    /\ Entry("starttls", FALSE) \in Elems(log)
    /\ Calls("quit") = 1
    /\ openConns = 0

\* C10 as stated: while one request is inside the SMTP transport, a request
\* that is waiting can begin to be handled.
C10_DispatchWhileInTransport ==
    (pending > 0 /\ pc \in {"starttls", "login", "sendmail", "exit"}) =>
        ENABLED (DispatchHello \/ DispatchSend)

====
